---- MODULE Spec2Model ----
(***************************************************************************)
(* Model of terraform-provider-runpod's GraphQL client                     *)
(* (internal/provider/client.go): one Client shared by concurrent callers, *)
(* each running doRequest under the client's mutex with its retry loop.    *)
(***************************************************************************)
EXTENDS Integers, Sequences, FiniteSets, TLC

\* ------------------------------------------------------------- bounds
\* Goroutines of the host that share the one Client.
NumCallers == 3
\* Total number of doRequest calls in one behaviour.
MaxCalls == 3

Callers == 1..NumCallers

\* ---------------------------------------------------- program constants
\* The retry budget off by one.
maxRetries_Six == 5 + 1

maxRetries == 5
baseDelay == 2
StatusTooManyRequests == 429
StatusServiceUnavailable == 503

\* ------------------------------------------------------ remote responses
\* A response body: either not JSON (valid = FALSE) or a graphQLResponse
\* envelope with its errors (the messages, in order) and its data.
NoBody == [valid |-> FALSE, errors |-> <<>>, data |-> "none"]

OkBody == [valid |-> TRUE, errors |-> <<>>, data |-> "d1"]

ErrBody == [valid |-> TRUE, errors |-> <<"boom", "Pod not found">>, data |-> "d1"]

Bodies ==
    { NoBody, OkBody,
      [valid |-> TRUE, errors |-> <<"Pod not found">>, data |-> "null"],
      ErrBody }

\* What one c.httpClient.Do + io.ReadAll can produce: Do fails (doErr), the
\* body cannot be read (readErr), or a status with a body.
Outcomes ==
    { [doErr |-> TRUE, readErr |-> FALSE, status |-> 0, body |-> NoBody],
      [doErr |-> FALSE, readErr |-> TRUE, status |-> 429, body |-> NoBody] }
    \cup { [doErr |-> FALSE, readErr |-> FALSE, status |-> 200, body |-> b]
           : b \in Bodies }
    \cup { [doErr |-> FALSE, readErr |-> FALSE, status |-> s, body |-> ErrBody]
           : s \in {400, 429, 500, 503} }
    \cup { [doErr |-> FALSE, readErr |-> FALSE, status |-> 400, body |-> NoBody] }

NoOutcome == [doErr |-> FALSE, readErr |-> FALSE, status |-> 0, body |-> NoBody]

\* --------------------------------------------------------------- results
\* (json.RawMessage, error) of doRequest: err = "" is a nil error.
Result(err, status, body, msg, data) ==
    [err |-> err, status |-> status, body |-> body, msg |-> msg, data |-> data]

NoResult == Result("unset", 0, NoBody, "", "none")

Failure(err) == Result(err, 0, NoBody, "", "none")

\* ----------------------------------------------------------------- state
VARIABLES
    mu,         \* Client.mu: TRUE when locked
    urlOK,      \* whether baseURL?api_key=apiKey parses as a URL
    pc,         \* each caller's position in doRequest
    attempt,    \* the loop variable of doRequest
    resp,       \* the last response the caller received
    result,     \* the value doRequest returns
    events,     \* history of the current call: requests, responses, sleeps
    calls,      \* number of doRequest calls made so far
    ticket,     \* history: the ordinal of the caller's current call
    heldAt,     \* history: the exchange holding mu when the caller called
    epoch,      \* history: number of exchanges that acquired mu
    returned    \* history: number of exchanges that released mu

vars == <<mu, urlOK, pc, attempt, resp, result, events,
          calls, ticket, heldAt, epoch, returned>>

hist == <<calls, ticket, heldAt, epoch, returned>>

\* The state of one runpod_pod resource (internal/provider/pod_resource.go),
\* which the Client never touches.
VARIABLES
    tracked,    \* whether Terraform's state holds the resource
    state,      \* the PodResourceModel in Terraform's state (NoState if none)
    last,       \* history: the last handler run, its inputs and what it did
    baseline,   \* history: the state as Create, Update or ImportState left it
    reads,      \* history: successful Reads since then: "none", "one", "many"
    replacing,  \* the configuration of the replacement under way (NoConfig: none)
    before      \* history: the state an import was verified against

podVars == <<tracked, state, last, baseline, reads, replacing, before>>

\* The provider (internal/provider/provider.go), its gpu_types data source
\* and the decoder of a pod's env (EnvVars in internal/provider/client.go).
VARIABLES
    published,  \* the Client that Configure handed to resources and data sources
    gpuState,   \* the GpuTypesDataSourceModel in Terraform's state
    ran,        \* history: the last run of Configure or of the data source's Read
    wire,       \* the JSON value that EnvVars.UnmarshalJSON is given
    decoded     \* the receiver *e and the error after UnmarshalJSON

provVars == <<published, gpuState, ran, wire, decoded>>

allVars == <<vars, podVars, provVars>>

Event(type, val, fail) == [type |-> type, val |-> val, fail |-> fail]

\* The callers inside the critical section of doRequest.
InExchange == {c \in Callers : pc[c] \in {"loop", "inflight", "sleep", "ret"}}

Init ==
    /\ mu = FALSE
    /\ urlOK \in BOOLEAN
    /\ pc = [c \in Callers |-> "idle"]
    /\ attempt = [c \in Callers |-> 0]
    /\ resp = [c \in Callers |-> NoOutcome]
    /\ result = [c \in Callers |-> NoResult]
    /\ events = [c \in Callers |-> <<>>]
    /\ calls = 0
    /\ ticket = [c \in Callers |-> 0]
    /\ heldAt = [c \in Callers |-> 0]
    /\ epoch = 0
    /\ returned = 0

\* ------------------------------------------------------------- doRequest
\* A caller enters doRequest(query, variables): it is now at c.mu.Lock().
doRequest(c) ==
    /\ pc[c] = "idle"
    /\ calls < MaxCalls
    /\ pc' = [pc EXCEPT ![c] = "lock"]
    /\ calls' = calls + 1
    /\ ticket' = [ticket EXCEPT ![c] = calls + 1]
    /\ heldAt' = [heldAt EXCEPT ![c] = IF mu THEN epoch ELSE 0]
    /\ UNCHANGED <<mu, urlOK, attempt, resp, result, events, epoch, returned>>
    /\ UNCHANGED <<podVars, provVars>>

\* doRequest without c.mu.Lock(): the caller waits for nobody.
Lock_NoMutex(c) ==
    /\ pc[c] = "lock"
    /\ mu' = TRUE
    /\ pc' = [pc EXCEPT ![c] = "loop"]
    /\ attempt' = [attempt EXCEPT ![c] = 0]
    /\ epoch' = epoch + 1
    /\ UNCHANGED <<urlOK, resp, result, events, calls, ticket, heldAt,
                   returned>>
    /\ UNCHANGED <<podVars, provVars>>

\* c.mu.Unlock() written without defer: the lock is released at once.
Lock_NotHeld(c) ==
    /\ pc[c] = "lock"
    /\ mu = FALSE
    /\ mu' = FALSE
    /\ pc' = [pc EXCEPT ![c] = "loop"]
    /\ attempt' = [attempt EXCEPT ![c] = 0]
    /\ epoch' = epoch + 1
    /\ UNCHANGED <<urlOK, resp, result, events, calls, ticket, heldAt,
                   returned>>
    /\ UNCHANGED <<podVars, provVars>>

\* c.mu.Lock() returns: sync.Mutex gives the lock to any one of the callers
\* blocked in Lock, in no specified order. json.Marshal of the request body
\* cannot fail here: the operations pass only strings, numbers, booleans and
\* maps of them as variables.
Lock(c) ==
    /\ pc[c] = "lock"
    /\ mu = FALSE
    /\ mu' = TRUE
    /\ pc' = [pc EXCEPT ![c] = "loop"]
    /\ attempt' = [attempt EXCEPT ![c] = 0]
    /\ epoch' = epoch + 1
    /\ UNCHANGED <<urlOK, resp, result, events, calls, ticket, heldAt,
                   returned>>
    /\ UNCHANGED <<podVars, provVars>>

\* The loop head and http.NewRequest + the start of c.httpClient.Do: the
\* request is on the wire. When the loop condition fails the function falls
\* out of the loop to its last return.
Do(c) ==
    /\ pc[c] = "loop"
    /\ IF attempt[c] < maxRetries
       THEN IF urlOK
            THEN /\ pc' = [pc EXCEPT ![c] = "inflight"]
                 /\ events' = [events EXCEPT
                        ![c] = Append(@, Event("req", attempt[c], "none"))]
                 /\ UNCHANGED result
            ELSE /\ pc' = [pc EXCEPT ![c] = "ret"]
                 /\ result' = [result EXCEPT
                        ![c] = Failure("failed to create request")]
                 /\ UNCHANGED events
       ELSE /\ pc' = [pc EXCEPT ![c] = "ret"]
            /\ result' = [result EXCEPT ![c] = Failure("max retries exceeded")]
            /\ UNCHANGED events
    /\ UNCHANGED <<mu, urlOK, attempt, resp, hist>>
    /\ UNCHANGED <<podVars, provVars>>

\* A backoff that grows by baseDelay per attempt instead of doubling.
Delay_Linear(a) == baseDelay * (a + 1)

\* A backoff without the shift: the same delay before every retry.
Delay_Const(a) == baseDelay

\* delay := baseDelay * time.Duration(1<<attempt), in seconds.
Delay(a) == baseDelay * (2 ^ a)

\* The two ways an iteration of the loop ends: time.Sleep(d); continue, or a
\* return statement.
Retry(d) == [sleep |-> TRUE, delay |-> d, result |-> NoResult]

Return(r) == [sleep |-> FALSE, delay |-> 0, result |-> r]

\* Transport failures treated like a rate limit: retried with backoff.
HandleResponse_RetryTransport(o, a) ==
    IF (o.doErr \/ o.readErr) /\ a < maxRetries - 1 THEN Retry(Delay(a))
    ELSE IF o.doErr THEN Return(Failure("failed to execute request"))
    ELSE IF o.readErr THEN Return(Failure("failed to read response body"))
    ELSE IF /\ o.status \in {StatusTooManyRequests, StatusServiceUnavailable}
            /\ a < maxRetries - 1
    THEN Retry(Delay(a))
    ELSE IF o.status >= 400
    THEN Return(Result("API returned status", o.status, o.body, "", "none"))
    ELSE IF ~o.body.valid THEN Return(Failure("failed to unmarshal response"))
    ELSE IF Len(o.body.errors) > 0
    THEN Return(Result("GraphQL error", 0, NoBody, o.body.errors[1], "none"))
    ELSE Return(Result("", 0, NoBody, "", o.body.data))

\* Every server error (status >= 500) retried, not only 503.
HandleResponse_Retry5xx(o, a) ==
    IF o.doErr THEN Return(Failure("failed to execute request"))
    ELSE IF o.readErr THEN Return(Failure("failed to read response body"))
    ELSE IF /\ (o.status = StatusTooManyRequests \/ o.status >= 500)
            /\ a < maxRetries - 1
    THEN Retry(Delay(a))
    ELSE IF o.status >= 400
    THEN Return(Result("API returned status", o.status, o.body, "", "none"))
    ELSE IF ~o.body.valid THEN Return(Failure("failed to unmarshal response"))
    ELSE IF Len(o.body.errors) > 0
    THEN Return(Result("GraphQL error", 0, NoBody, o.body.errors[1], "none"))
    ELSE Return(Result("", 0, NoBody, "", o.body.data))

\* The errors array consulted only when the envelope has no data.
HandleResponse_DataWins(o, a) ==
    IF o.doErr THEN Return(Failure("failed to execute request"))
    ELSE IF o.readErr THEN Return(Failure("failed to read response body"))
    ELSE IF /\ o.status \in {StatusTooManyRequests, StatusServiceUnavailable}
            /\ a < maxRetries - 1
    THEN Retry(Delay(a))
    ELSE IF o.status >= 400
    THEN Return(Result("API returned status", o.status, o.body, "", "none"))
    ELSE IF ~o.body.valid THEN Return(Failure("failed to unmarshal response"))
    ELSE IF Len(o.body.errors) > 0 /\ o.body.data = "null"
    THEN Return(Result("GraphQL error", 0, NoBody, o.body.errors[1], "none"))
    ELSE Return(Result("", 0, NoBody, "", o.body.data))

\* The body of the retry loop from the return of c.httpClient.Do on, for
\* the outcome o of attempt a: the checks in the order the code makes them.
HandleResponse(o, a) ==
    IF o.doErr THEN Return(Failure("failed to execute request"))
    ELSE IF o.readErr THEN Return(Failure("failed to read response body"))
    ELSE IF /\ o.status \in {StatusTooManyRequests, StatusServiceUnavailable}
            /\ a < maxRetries - 1
    THEN Retry(Delay(a))
    ELSE IF o.status >= 400
    THEN Return(Result("API returned status", o.status, o.body, "", "none"))
    ELSE IF ~o.body.valid THEN Return(Failure("failed to unmarshal response"))
    ELSE IF Len(o.body.errors) > 0
    THEN Return(Result("GraphQL error", 0, NoBody, o.body.errors[1], "none"))
    ELSE Return(Result("", 0, NoBody, "", o.body.data))

RespEvent(o) ==
    Event("resp", o.status,
          IF o.doErr THEN "do" ELSE IF o.readErr THEN "read" ELSE "none")

\* The lock released for the time of the backoff sleep.
Receive_UnlockToSleep(c, o) ==
    /\ pc[c] = "inflight"
    /\ LET h == HandleResponse(o, attempt[c]) IN
        /\ resp' = [resp EXCEPT ![c] = o]
        /\ IF h.sleep
           THEN /\ pc' = [pc EXCEPT ![c] = "sleep"]
                /\ events' = [events EXCEPT
                       ![c] = @ \o <<RespEvent(o), Event("sleep", h.delay, "none")>>]
                /\ mu' = FALSE
                /\ UNCHANGED result
           ELSE /\ pc' = [pc EXCEPT ![c] = "ret"]
                /\ events' = [events EXCEPT ![c] = Append(@, RespEvent(o))]
                /\ result' = [result EXCEPT ![c] = h.result]
                /\ UNCHANGED mu
    /\ UNCHANGED <<urlOK, attempt, hist>>
    /\ UNCHANGED <<podVars, provVars>>

\* c.httpClient.Do and io.ReadAll return with outcome o; the rest of the
\* loop body runs up to time.Sleep or a return statement.
Receive(c, o) ==
    /\ pc[c] = "inflight"
    /\ LET h == HandleResponse(o, attempt[c]) IN
        /\ resp' = [resp EXCEPT ![c] = o]
        /\ IF h.sleep
           THEN /\ pc' = [pc EXCEPT ![c] = "sleep"]
                /\ events' = [events EXCEPT
                       ![c] = @ \o <<RespEvent(o), Event("sleep", h.delay, "none")>>]
                /\ UNCHANGED result
           ELSE /\ pc' = [pc EXCEPT ![c] = "ret"]
                /\ events' = [events EXCEPT ![c] = Append(@, RespEvent(o))]
                /\ result' = [result EXCEPT ![c] = h.result]
    /\ UNCHANGED <<mu, urlOK, attempt, hist>>
    /\ UNCHANGED <<podVars, provVars>>

\* time.Sleep(delay) returns; continue: attempt++.
Sleep(c) ==
    /\ pc[c] = "sleep"
    /\ pc' = [pc EXCEPT ![c] = "loop"]
    /\ attempt' = [attempt EXCEPT ![c] = @ + 1]
    /\ UNCHANGED <<mu, urlOK, resp, result, events, hist>>
    /\ UNCHANGED <<podVars, provVars>>

\* doRequest returns without the deferred c.mu.Unlock().
Unlock_NoRelease(c) ==
    /\ pc[c] = "ret"
    /\ pc' = [pc EXCEPT ![c] = "idle"]
    /\ attempt' = [attempt EXCEPT ![c] = 0]
    /\ resp' = [resp EXCEPT ![c] = NoOutcome]
    /\ result' = [result EXCEPT ![c] = NoResult]
    /\ events' = [events EXCEPT ![c] = <<>>]
    /\ ticket' = [ticket EXCEPT ![c] = 0]
    /\ heldAt' = [heldAt EXCEPT ![c] = 0]
    /\ returned' = returned + 1
    /\ UNCHANGED <<mu, urlOK, calls, epoch>>
    /\ UNCHANGED <<podVars, provVars>>

\* The deferred c.mu.Unlock() runs and doRequest returns result[c] to the
\* operation that called it; the locals of the call are gone.
Unlock(c) ==
    /\ pc[c] = "ret"
    /\ mu' = FALSE
    /\ pc' = [pc EXCEPT ![c] = "idle"]
    /\ attempt' = [attempt EXCEPT ![c] = 0]
    /\ resp' = [resp EXCEPT ![c] = NoOutcome]
    /\ result' = [result EXCEPT ![c] = NoResult]
    /\ events' = [events EXCEPT ![c] = <<>>]
    /\ ticket' = [ticket EXCEPT ![c] = 0]
    /\ heldAt' = [heldAt EXCEPT ![c] = 0]
    /\ returned' = returned + 1
    /\ UNCHANGED <<urlOK, calls, epoch>>
    /\ UNCHANGED <<podVars, provVars>>

\* ------------------------------------------------- the Client's operations
\* Each operation builds its query and variables and calls doRequest once;
\* what it does with the returned data does not touch the Client.
Ping(c) == doRequest(c)

CreatePod(c) == doRequest(c)

GetPod(c) == doRequest(c)

TerminatePod(c) == doRequest(c)

StopPod(c) == doRequest(c)

ResumePod(c) == doRequest(c)

ListGpuTypes(c) == doRequest(c)

GetGpuType(c) == doRequest(c)

Next ==
    \E c \in Callers :
        \/ Ping(c)
        \/ CreatePod(c)
        \/ GetPod(c)
        \/ TerminatePod(c)
        \/ StopPod(c)
        \/ ResumePod(c)
        \/ ListGpuTypes(c)
        \/ GetGpuType(c)
        \/ Lock(c)
        \/ Do(c)
        \/ \E o \in Outcomes : Receive(c, o)
        \/ Sleep(c)
        \/ Unlock(c)

\* ------------------------------------------------------ derived history
\* HTTP attempts issued so far in the caller's current call.
Attempts(c) == Len(SelectSeq(events[c], LAMBDA e : e.type = "req"))

SleepsOf(c) == SelectSeq(events[c], LAMBDA e : e.type = "sleep")

\* The responses of the current call, as <<status, failure>> pairs.
ResponsesOf(c) == SelectSeq(events[c], LAMBDA e : e.type = "resp")

StatusesOf(c) == [i \in 1..Len(ResponsesOf(c)) |-> ResponsesOf(c)[i].val]

NoTransportFailure(c) ==
    \A i \in 1..Len(ResponsesOf(c)) : ResponsesOf(c)[i].fail = "none"

\* The events of the current call without the failure tag.
Trace(c) == [i \in 1..Len(events[c]) |-> <<events[c][i].type, events[c][i].val>>]

\* ===================================================== the pod resource
\* internal/provider/pod_resource.go: the tracked state of one runpod_pod
\* resource and its Create, Read, Delete and ImportState handlers, each on
\* top of one operation of the Client.

\* ------------------------------------------------------ attribute values
\* A types.String, types.Int64, types.Bool or types.Map: known, null or
\* unknown. v holds the zero value of the type when the value is not known,
\* which is what ValueString, ValueInt64 and ValueBool return then.
Known(v) == [k |-> "known", v |-> v]

NullS == [k |-> "null", v |-> ""]

NullI == [k |-> "null", v |-> 0]

NullB == [k |-> "null", v |-> FALSE]

NullM == [k |-> "null", v |-> {}]

NullL == [k |-> "null", v |-> <<>>]

UnknownS == [k |-> "unknown", v |-> ""]

IsNull(x) == x.k = "null"

IsUnknown(x) == x.k = "unknown"

\* ------------------------------------------------------------- the schema
\* Defaults of the Optional+Computed attributes.
DefaultGpuCount == 1

DefaultVolumeInGb == 0

DefaultContainerDiskInGb == 20

DefaultCloudType == "ALL"

DefaultVolumeMountPath == "/workspace"

DefaultSupportPublicIP == TRUE

DefaultStartSSH == TRUE

\* A configuration as the practitioner writes it: every argument set or
\* left out (null). GpuTypeIDs is the gpu_type_ids list that the acceptance
\* tests and the example configuration write.
Config(name, image, gpu, gpus) ==
    [ Name |-> name, ImageName |-> image, GpuTypeID |-> gpu, GpuTypeIDs |-> gpus,
      GpuCount |-> NullI, VolumeInGb |-> NullI, ContainerDiskInGb |-> NullI,
      CloudType |-> NullS, Ports |-> NullS, VolumeMountPath |-> NullS,
      DockerArgs |-> NullS, Env |-> NullM, MinVcpuCount |-> NullI,
      MinMemoryInGb |-> NullI, NetworkVolumeID |-> NullS, TemplateID |-> NullS,
      DataCenterID |-> NullS, SupportPublicIP |-> NullB, StartSSH |-> NullB ]

\* Only the required arguments.
CfgMin == Config(Known("x"), Known("img"), Known("A4000"), NullL)

\* Every argument set, the two flags explicitly false.
CfgFull ==
    [ Config(Known("x"), Known("img"), Known("A4000"), NullL) EXCEPT
        !.GpuCount = Known(2), !.VolumeInGb = Known(20),
        !.ContainerDiskInGb = Known(40), !.CloudType = Known("SECURE"),
        !.Ports = Known("22/tcp"), !.VolumeMountPath = Known("/data"),
        !.DockerArgs = Known("--shm"), !.Env = Known({<<"TEST_VAR", "test_value">>}),
        !.MinVcpuCount = Known(2), !.MinMemoryInGb = Known(8),
        !.NetworkVolumeID = Known("nv1"), !.TemplateID = Known("t1"),
        !.DataCenterID = Known("dc1"), !.SupportPublicIP = Known(FALSE),
        !.StartSSH = Known(FALSE) ]

\* testAccPodResourceConfig: a list of acceptable GPU types and no
\* gpu_type_id.
CfgCandidates ==
    [ Config(Known("x"), Known("img"), NullS, Known(<<"A4000", "A5000">>)) EXCEPT
        !.GpuCount = Known(1), !.VolumeInGb = Known(20),
        !.ContainerDiskInGb = Known(20) ]

\* CfgMin renamed, with another GPU count and an env: no argument changed
\* that the schema marks RequiresReplace.
CfgRenamed ==
    [ CfgMin EXCEPT !.Name = Known("y"), !.GpuCount = Known(2),
        !.Env = Known({<<"K", "v2">>}) ]

\* CfgMin renamed, with another GPU count and container disk, and nothing
\* else changed.
CfgScaled ==
    [ CfgMin EXCEPT !.Name = Known("y"), !.GpuCount = Known(2),
        !.ContainerDiskInGb = Known(50) ]

\* CfgFull with the volume grown from 20 to 30.
CfgGrown == [CfgFull EXCEPT !.VolumeInGb = Known(30)]

Configs == {CfgMin, CfgFull, CfgCandidates}

\* The configurations that follow one another when a configuration is
\* edited and applied again.
ApplyConfigs == {CfgMin, CfgFull, CfgRenamed, CfgScaled, CfgGrown}

\* The schema declares no gpu_type_ids attribute and requires name,
\* image_name and gpu_type_id: a configuration is handed to Create only when
\* it has the required arguments and no undeclared one.
SchemaAccepts(cfg) ==
    /\ IsNull(cfg.GpuTypeIDs)
    /\ ~IsNull(cfg.Name)
    /\ ~IsNull(cfg.ImageName)
    /\ ~IsNull(cfg.GpuTypeID)

OrDefault(x, d) == IF IsNull(x) THEN Known(d) ELSE x

\* The PodResourceModel that req.Plan.Get yields in Create: the configured
\* values, the schema defaults for the Optional+Computed attributes left
\* out, and unknown for the Computed attributes.
PlanOf(cfg) ==
    [ ID |-> UnknownS,
      Name |-> cfg.Name,
      ImageName |-> cfg.ImageName,
      GpuTypeID |-> cfg.GpuTypeID,
      GpuCount |-> OrDefault(cfg.GpuCount, DefaultGpuCount),
      VolumeInGb |-> OrDefault(cfg.VolumeInGb, DefaultVolumeInGb),
      ContainerDiskInGb |-> OrDefault(cfg.ContainerDiskInGb, DefaultContainerDiskInGb),
      CloudType |-> OrDefault(cfg.CloudType, DefaultCloudType),
      Ports |-> cfg.Ports,
      VolumeMountPath |-> OrDefault(cfg.VolumeMountPath, DefaultVolumeMountPath),
      DockerArgs |-> cfg.DockerArgs,
      Env |-> cfg.Env,
      MinVcpuCount |-> cfg.MinVcpuCount,
      MinMemoryInGb |-> cfg.MinMemoryInGb,
      NetworkVolumeID |-> cfg.NetworkVolumeID,
      TemplateID |-> cfg.TemplateID,
      DataCenterID |-> cfg.DataCenterID,
      SupportPublicIP |-> OrDefault(cfg.SupportPublicIP, DefaultSupportPublicIP),
      StartSSH |-> OrDefault(cfg.StartSSH, DefaultStartSSH),
      MachineID |-> UnknownS,
      PodHostID |-> UnknownS ]

\* stringplanmodifier.UseStateForUnknown on a Computed attribute: the prior
\* state's value unless that is null.
UseStateForUnknown(prior) == IF IsNull(prior) THEN UnknownS ELSE prior

\* The plan of a configuration for a resource that is in the state: as
\* PlanOf, with the Computed attributes taken from the prior state.
PlanForUpdate(cfg, prior) ==
    [ PlanOf(cfg) EXCEPT
        !.ID = UseStateForUnknown(prior.ID),
        !.MachineID = UseStateForUnknown(prior.MachineID),
        !.PodHostID = UseStateForUnknown(prior.PodHostID) ]

\* The attributes with the plan modifier RequiresReplace.
RequiresReplaceFields ==
    { "ImageName", "GpuTypeID", "VolumeInGb", "Ports", "VolumeMountPath",
      "DockerArgs", "NetworkVolumeID", "TemplateID", "DataCenterID" }

\* No attribute forces a replacement.
NeedsReplace_Never(plan, prior) == FALSE

\* RequiresReplace: the planned value differs from the prior state's.
NeedsReplace(plan, prior) ==
    ~(\A f \in RequiresReplaceFields : plan[f] = prior[f])

\* The state of a resource that is not tracked, and the state that
\* ImportStatePassthroughID seeds: the id and nothing else.
NoState ==
    [ ID |-> NullS, Name |-> NullS, ImageName |-> NullS, GpuTypeID |-> NullS,
      GpuCount |-> NullI, VolumeInGb |-> NullI, ContainerDiskInGb |-> NullI,
      CloudType |-> NullS, Ports |-> NullS, VolumeMountPath |-> NullS,
      DockerArgs |-> NullS, Env |-> NullM, MinVcpuCount |-> NullI,
      MinMemoryInGb |-> NullI, NetworkVolumeID |-> NullS, TemplateID |-> NullS,
      DataCenterID |-> NullS, SupportPublicIP |-> NullB, StartSSH |-> NullB,
      MachineID |-> NullS, PodHostID |-> NullS ]

\* ------------------------------------------------------------------ text
\* An error message is a sequence of fragments; the fragments are cut so
\* that a searched text ("not found", "Pod not found") is made of whole
\* fragments. strings.Contains(s, sub): sub occurs in s.
Contains(s, sub) ==
    \E i \in 1..(Len(s) - Len(sub) + 1) : SubSeq(s, i, i + Len(sub) - 1) = sub

NotFoundText == <<"not found">>

PodNotFoundText == <<"Pod ", "not found">>

\* ------------------------------------------------------ the remote's pods
\* pod.Machine: nil, or a Machine.
NoMachine == [nil |-> TRUE, PodHostID |-> "", GpuTypeID |-> ""]

Machine(host, gpu) == [nil |-> FALSE, PodHostID |-> host, GpuTypeID |-> gpu]

\* A decoded Pod: a field the response leaves out or gives as null holds
\* the zero value of its type.
NoPod ==
    [ ID |-> "", Name |-> "", ImageName |-> "", GpuCount |-> 0, VolumeInGb |-> 0,
      ContainerDiskInGb |-> 0, CloudType |-> "", Ports |-> "",
      VolumeMountPath |-> "", DockerArgs |-> "", Env |-> <<>>, MachineID |-> "",
      Machine |-> NoMachine ]

\* The pod as the create of CfgMin or CfgFull is usually answered.
PodEcho ==
    [ NoPod EXCEPT !.ID = "p1", !.Name = "x", !.ImageName = "img", !.GpuCount = 1,
        !.VolumeInGb = 20, !.ContainerDiskInGb = 20, !.MachineID = "m1",
        !.Machine = Machine("h1", "") ]

\* Only the id: every other field left out, no machine object.
PodBare == [NoPod EXCEPT !.ID = "p1"]

\* A machine object without host id, and no machineId.
PodNoHost ==
    [ NoPod EXCEPT !.ID = "p1", !.Name = "x", !.ImageName = "img", !.GpuCount = 1,
        !.Machine = Machine("", "") ]

\* Every field present and different from what was configured.
PodDrift ==
    [ ID |-> "p2", Name |-> "y", ImageName |-> "img2", GpuCount |-> 4,
      VolumeInGb |-> 30, ContainerDiskInGb |-> 50, CloudType |-> "COMMUNITY",
      Ports |-> "80/http", VolumeMountPath |-> "/mnt", DockerArgs |-> "-x",
      Env |-> <<[Key |-> "K", Value |-> "v"]>>, MachineID |-> "m2",
      Machine |-> Machine("h2", "A5000") ]

Pods == {PodEcho, PodBare, PodNoHost, PodDrift}

\* The data of a response envelope: no data member at all, null, an object
\* whose pod member is null, something that is no object, or a pod.
Data(kind, pod) == [kind |-> kind, pod |-> pod]

PodDatas ==
    { Data(kd, NoPod) : kd \in {"absent", "null", "nopod", "junk"} }
    \cup { Data("pod", p) : p \in Pods }

PodBody(valid, errors, data, text) ==
    [valid |-> valid, errors |-> errors, data |-> data, text |-> text]

Answer(status, body) ==
    [doErr |-> FALSE, readErr |-> FALSE, status |-> status, body |-> body]

\* What the remote may answer to an operation on a pod.
PodOutcomes ==
    { [doErr |-> TRUE, readErr |-> FALSE, status |-> 0, body |-> NoBody],
      [doErr |-> FALSE, readErr |-> TRUE, status |-> 200, body |-> NoBody] }
    \cup { Answer(200, PodBody(TRUE, <<>>, d, <<"{}">>)) : d \in PodDatas }
    \cup { Answer(200, PodBody(TRUE, <<e>>, Data("null", NoPod), <<"{}">>))
           : e \in {PodNotFoundText, <<"boom">>} }
    \cup { Answer(200, PodBody(TRUE, <<<<"boom">>, PodNotFoundText>>,
                               Data("pod", PodEcho), <<"{}">>)),
           Answer(200, PodBody(FALSE, <<>>, Data("absent", NoPod), <<"<html>">>)),
           Answer(404, PodBody(FALSE, <<>>, Data("absent", NoPod),
                               <<"404 page ", "not found">>)),
           Answer(500, PodBody(FALSE, <<>>, Data("absent", NoPod),
                               <<"internal error">>)),
           Answer(429, PodBody(FALSE, <<>>, Data("absent", NoPod),
                               <<"slow down">>)) }

\* Retried 429 answers that may precede the outcome of an exchange.
PodRetries == {0, 1}

\* ----------------------------------------- the Client seen by a resource
\* doRequest as a function of what the remote answers: the first k attempts
\* get a 429 and every later one gets o.
RECURSIVE RunLoop(_, _, _)
RunLoop(k, o, a) ==
    IF a >= maxRetries THEN Failure("max retries exceeded")
    ELSE LET h == HandleResponse(
                    IF a < k THEN Answer(StatusTooManyRequests, NoBody) ELSE o, a)
         IN  IF h.sleep THEN RunLoop(k, o, a + 1) ELSE h.result

doRequestResult(k, o) ==
    IF urlOK THEN RunLoop(k, o, 0) ELSE Failure("failed to create request")

\* err.Error() of an error that doRequest returns.
ErrText(r) ==
    CASE r.err = "GraphQL error" -> <<"GraphQL error: ">> \o r.msg
      [] r.err = "API returned status" ->
            <<"API returned status ", ToString(r.status), ": ">> \o r.body.text
      [] r.err = "failed to create request" ->
            <<"failed to create request: ", "invalid URL">>
      [] r.err = "failed to execute request" ->
            <<"failed to execute request: ", "connection refused">>
      [] r.err = "failed to read response body" ->
            <<"failed to read response body: ", "unexpected EOF">>
      [] r.err = "failed to unmarshal response" ->
            <<"failed to unmarshal response: ", "invalid character">>
      [] OTHER -> <<r.err>>

\* What an operation returns: an error text (<<>> for nil) and a pod.
OpResult(err, pod) == [err |-> err, pod |-> pod]

\* json.Unmarshal(data, &result) fails on no data and on data that is no
\* object; null and an object with a null member leave the pointer nil.
Undecodable(d) == d.kind \in {"absent", "junk"}

UnmarshalPodError == <<"failed to unmarshal pod response: ", "json error">>

\* A null pod answered by CreatePod with an empty Pod and no error.
CreatePodResult_NilPodOk(k, o) ==
    LET r == doRequestResult(k, o) IN
    IF r.err # "" THEN OpResult(<<"failed to create pod: ">> \o ErrText(r), NoPod)
    ELSE IF Undecodable(r.data) THEN OpResult(UnmarshalPodError, NoPod)
    ELSE IF r.data.kind # "pod" THEN OpResult(<<>>, NoPod)
    ELSE OpResult(<<>>, r.data.pod)

CreatePodResult(k, o) ==
    LET r == doRequestResult(k, o) IN
    IF r.err # "" THEN OpResult(<<"failed to create pod: ">> \o ErrText(r), NoPod)
    ELSE IF Undecodable(r.data) THEN OpResult(UnmarshalPodError, NoPod)
    ELSE IF r.data.kind # "pod" THEN OpResult(<<"no pod returned from API">>, NoPod)
    ELSE OpResult(<<>>, r.data.pod)

GetPodResult(id, k, o) ==
    LET r == doRequestResult(k, o) IN
    IF r.err # "" THEN OpResult(ErrText(r), NoPod)
    ELSE IF Undecodable(r.data) THEN OpResult(UnmarshalPodError, NoPod)
    ELSE IF r.data.kind # "pod" THEN OpResult(<<"pod ", "not found", ": ", id>>, NoPod)
    ELSE OpResult(<<>>, r.data.pod)

TerminatePodResult(k, o) ==
    LET r == doRequestResult(k, o) IN
    IF r.err # "" THEN OpResult(<<"failed to terminate pod: ">> \o ErrText(r), NoPod)
    ELSE OpResult(<<>>, NoPod)

\* ------------------------------------------------------ the create request
Sent(v) == [k |-> "sent", v |-> v]

Omitted(v) == [k |-> "omitted", v |-> v]

SentIf(cond, v) == IF cond THEN Sent(v) ELSE Omitted(v)

\* The PodInput that Create builds from the plan. GpuTypeIDs is never set.
PodInputOf(data) ==
    [ Name |-> data.Name.v,
      ImageName |-> data.ImageName.v,
      GpuTypeID |-> data.GpuTypeID.v,
      GpuTypeIDs |-> <<>>,
      GpuCount |-> data.GpuCount.v,
      VolumeInGb |-> data.VolumeInGb.v,
      ContainerDiskInGb |-> data.ContainerDiskInGb.v,
      CloudType |-> IF ~IsNull(data.CloudType) THEN data.CloudType.v ELSE "",
      Ports |-> IF ~IsNull(data.Ports) THEN data.Ports.v ELSE "",
      VolumeMountPath |->
          IF ~IsNull(data.VolumeMountPath) THEN data.VolumeMountPath.v ELSE "",
      DockerArgs |-> IF ~IsNull(data.DockerArgs) THEN data.DockerArgs.v ELSE "",
      Env |-> IF ~IsNull(data.Env) THEN data.Env.v ELSE {},
      MinVcpuCount |-> IF ~IsNull(data.MinVcpuCount) THEN data.MinVcpuCount.v ELSE 0,
      MinMemoryInGb |->
          IF ~IsNull(data.MinMemoryInGb) THEN data.MinMemoryInGb.v ELSE 0,
      NetworkVolumeID |->
          IF ~IsNull(data.NetworkVolumeID) THEN data.NetworkVolumeID.v ELSE "",
      TemplateID |-> IF ~IsNull(data.TemplateID) THEN data.TemplateID.v ELSE "",
      DataCenterID |->
          IF ~IsNull(data.DataCenterID) THEN data.DataCenterID.v ELSE "",
      SupportPublicIP |->
          IF ~IsNull(data.SupportPublicIP) THEN data.SupportPublicIP.v ELSE FALSE,
      StartSSH |-> IF ~IsNull(data.StartSSH) THEN data.StartSSH.v ELSE FALSE ]

\* The input map that CreatePod sends as the variable "input".
CreatePodInputMap(input) ==
    [ name |-> Sent(input.Name),
      imageName |-> Sent(input.ImageName),
      gpuCount |-> Sent(input.GpuCount),
      volumeInGb |-> Sent(input.VolumeInGb),
      containerDiskInGb |-> Sent(input.ContainerDiskInGb),
      gpuTypeId |-> IF Len(input.GpuTypeIDs) > 0 THEN Sent(input.GpuTypeIDs[1])
                    ELSE SentIf(input.GpuTypeID # "", input.GpuTypeID),
      cloudType |-> SentIf(input.CloudType # "", input.CloudType),
      ports |-> SentIf(input.Ports # "", input.Ports),
      volumeMountPath |-> SentIf(input.VolumeMountPath # "", input.VolumeMountPath),
      dockerArgs |-> SentIf(input.DockerArgs # "", input.DockerArgs),
      env |-> SentIf(input.Env # {}, input.Env),
      minVcpuCount |-> SentIf(input.MinVcpuCount > 0, input.MinVcpuCount),
      minMemoryInGb |-> SentIf(input.MinMemoryInGb > 0, input.MinMemoryInGb),
      networkVolumeId |-> SentIf(input.NetworkVolumeID # "", input.NetworkVolumeID),
      templateId |-> SentIf(input.TemplateID # "", input.TemplateID),
      dataCenterId |-> SentIf(input.DataCenterID # "", input.DataCenterID),
      supportPublicIp |-> SentIf(input.SupportPublicIP, input.SupportPublicIP),
      startSsh |-> SentIf(input.StartSSH, input.StartSSH) ]

\* One exchange: the operation and its variables.
Request(op, id, input) == [op |-> op, id |-> id, input |-> input]

NoInput == CreatePodInputMap(PodInputOf(NoState))

\* ------------------------------------------------ the GPU type catalog
GpuType(id, mem) == [ID |-> id, MemoryInGb |-> mem]

A4000 == GpuType("A4000", 16)

A5000 == GpuType("A5000", 24)

\* The lists of GPU types that the remote may answer with.
GpuLists == { <<>>, <<A4000>>, <<A5000>>, <<A4000, A5000>>, <<A5000, A4000>> }

\* The data of a response envelope to a gpuTypes query.
GpuData(kind, list) == [kind |-> kind, gpuTypes |-> list]

\* What the remote may answer to Ping and to a gpuTypes query.
ProviderOutcomes ==
    { [doErr |-> TRUE, readErr |-> FALSE, status |-> 0, body |-> NoBody],
      Answer(500, PodBody(FALSE, <<>>, GpuData("absent", <<>>), <<"internal error">>)),
      Answer(200, PodBody(TRUE, <<<<"boom">>>>, GpuData("null", <<>>), <<"{}">>)),
      Answer(200, PodBody(TRUE, <<>>, GpuData("null", <<>>), <<"{}">>)),
      Answer(200, PodBody(TRUE, <<>>, GpuData("absent", <<>>), <<"{}">>)) }
    \cup { Answer(200, PodBody(TRUE, <<>>, GpuData("list", l), <<"{}">>))
           : l \in GpuLists }

\* A request as doRequest is given it: the document, in fragments, and the
\* variables (nil, or a map as a set of name-value pairs).
GqlRequest(query, variables) == [query |-> query, variables |-> variables]

NilVariables == [nil |-> TRUE, map |-> {}]

Variables(map) == [nil |-> FALSE, map |-> map]

ListGpuTypesRequest ==
    GqlRequest(<<"query GpuTypes { gpuTypes { id displayName memoryInGb } }">>,
               NilVariables)

\* The id is concatenated into the document; the variables are an empty map.
GetGpuTypeRequest(id) ==
    GqlRequest(<<"query GpuTypes { gpuTypes(input: {id: \"", id,
                 "\"}) { id displayName memoryInGb } }">>,
               Variables({}))

\* What a catalog operation returns: an error text (<<>> for nil) and the
\* GPU types.
GpuResult(err, list) == [err |-> err, gpuTypes |-> list]

\* The GpuTypes member of the decoded data: nil unless the data carries it.
DecodedGpuTypes(d) == IF d.kind = "list" THEN d.gpuTypes ELSE <<>>

ListGpuTypesResult(k, o) ==
    LET r == doRequestResult(k, o) IN
    IF r.err # "" THEN GpuResult(ErrText(r), <<>>)
    ELSE IF Undecodable(r.data)
    THEN GpuResult(<<"failed to unmarshal gpu types response: ", "json error">>, <<>>)
    ELSE GpuResult(<<>>, DecodedGpuTypes(r.data))

\* An empty list answered as a result without entry and without error.
GetGpuTypeResult_EmptyOk(id, k, o) ==
    LET r == doRequestResult(k, o) IN
    IF r.err # "" THEN GpuResult(ErrText(r), <<>>)
    ELSE IF Undecodable(r.data)
    THEN GpuResult(<<"failed to unmarshal gpu type response: ", "json error">>, <<>>)
    ELSE IF Len(DecodedGpuTypes(r.data)) = 0 THEN GpuResult(<<>>, <<>>)
    ELSE GpuResult(<<>>, <<DecodedGpuTypes(r.data)[1]>>)

\* The first entry of the list answered, whatever its id.
GetGpuTypeResult(id, k, o) ==
    LET r == doRequestResult(k, o) IN
    IF r.err # "" THEN GpuResult(ErrText(r), <<>>)
    ELSE IF Undecodable(r.data)
    THEN GpuResult(<<"failed to unmarshal gpu type response: ", "json error">>, <<>>)
    ELSE IF Len(DecodedGpuTypes(r.data)) = 0
    THEN GpuResult(<<"GPU type not found: ", id>>, <<>>)
    ELSE GpuResult(<<>>, <<DecodedGpuTypes(r.data)[1]>>)

\* The filter block of the data source's configuration.
NoFilter == [nil |-> TRUE, ID |-> NullS]

Filter(id) == [nil |-> FALSE, ID |-> id]

Filters == { NoFilter, Filter(NullS), Filter(Known("A4000")), Filter(Known("A5000")) }

GpuTypeModel(gt) == [ID |-> Known(gt.ID), MemoryInGb |-> Known(gt.MemoryInGb)]

NoGpuState == [ID |-> NullS, GpuTypes |-> <<>>, Filter |-> NoFilter]

\* ----------------------------------------------------------- the provider
NoClient == [nil |-> TRUE, apiKey |-> ""]

NewClient(apiKey) == [nil |-> FALSE, apiKey |-> apiKey]

\* The api_key attribute of the provider block: absent, not yet known,
\* empty, or a key.
APIKeys == { NullS, UnknownS, Known(""), Known("k1") }

\* os.Getenv("RUNPOD_API_KEY"): "" when the variable is unset or empty.
EnvKeys == { "", "k2" }

MissingAPIKey == <<"Missing API Key">>

\* The record of one run of Configure or of the data source's Read.
ProviderRan(op, key, envKey, filter, out, reqs, apiKey, diag) ==
    [ op |-> op, key |-> key, envKey |-> envKey, filter |-> filter, out |-> out,
      reqs |-> reqs, apiKey |-> apiKey, diag |-> diag ]

NoRun == ProviderRan("none", NullS, "", NoFilter, NoOutcome, <<>>, "", <<>>)

\* --------------------------------------------------- the decoder of env
\* Strings are sequences of characters over EnvChars.
MaxStrLen == 3

MaxEnvLen == 2

EnvChars == { "A", "=" }

Strings == UNION { [1..n -> EnvChars] : n \in 0..MaxStrLen }

EnvVar(key, value) == [Key |-> key, Value |-> value]

\* A JSON value: an array of strings, an array of key/value objects, null,
\* or anything else.
Wire(kind, items) == [kind |-> kind, items |-> items]

NoWire == Wire("none", <<>>)

Wires ==
    { Wire("strings", xs)
      : xs \in UNION { [1..n -> Strings] : n \in 0..MaxEnvLen } }
    \cup { Wire("objects", <<EnvVar(<<"A">>, <<"=", "A">>)>>),
           Wire("null", <<>>),
           Wire("junk", <<>>) }

\* The index of the first sep in s, 0 if there is none.
Index(s, sep) ==
    LET at == { i \in 1..Len(s) : s[i] = sep }
    IN  IF at = {} THEN 0 ELSE CHOOSE i \in at : \A j \in at : i <= j

\* The string cut at its last "=".
SplitN_Last(s) ==
    LET at == { i \in 1..Len(s) : s[i] = "=" }
        i == IF at = {} THEN 0 ELSE CHOOSE i \in at : \A j \in at : i >= j
    IN  IF i = 0 THEN <<s>>
        ELSE <<SubSeq(s, 1, i - 1), SubSeq(s, i + 1, Len(s))>>

\* strings.SplitN(s, "=", 2)
SplitN(s) ==
    LET i == Index(s, "=")
    IN  IF i = 0 THEN <<s>>
        ELSE <<SubSeq(s, 1, i - 1), SubSeq(s, i + 1, Len(s))>>

\* What UnmarshalJSON leaves in the receiver e and whether it returns an
\* error.
Decoded(done, err, e) == [done |-> done, err |-> err, e |-> e]

NotDecoded == Decoded(FALSE, FALSE, <<>>)

EnvVarsUnmarshalJSON(e, data) ==
    IF data.kind \in {"strings", "null"}
    THEN Decoded(TRUE, FALSE,
                 [ i \in 1..Len(data.items) |->
                     LET parts == SplitN(data.items[i])
                     IN  IF Len(parts) = 2 THEN EnvVar(parts[1], parts[2])
                         ELSE EnvVar(parts[1], <<>>) ])
    ELSE IF data.kind = "objects" THEN Decoded(TRUE, FALSE, data.items)
    ELSE Decoded(TRUE, TRUE, e)

\* ------------------------------------------------------- resource state
NoConfig == Config(NullS, NullS, NullS, NullL)

NoDiag == <<>>

\* The record of one handler run. reqs are the operations of the Client the
\* handler called, diag the error diagnostic it added (NoDiag: none), res
\* what the operation returned.
Ran(op, cfg, out, reqs, res, diag) ==
    [ op |-> op, cfg |-> cfg, out |-> out, prior |-> state,
      priorTracked |-> tracked, reqs |-> reqs, res |-> res, diag |-> diag,
      replacing |-> replacing ]

\* No resource in the state.
PodStateInit ==
    /\ tracked = FALSE
    /\ state = NoState
    /\ last = [ op |-> "none", cfg |-> NoConfig, out |-> NoOutcome,
                prior |-> NoState, priorTracked |-> FALSE, reqs |-> <<>>,
                res |-> OpResult(<<>>, NoPod), diag |-> NoDiag,
                replacing |-> NoConfig ]
    /\ baseline = NoState
    /\ reads = "none"
    /\ replacing = NoConfig
    /\ before = NoState

\* The provider not configured, the data source not read.
ProviderInit ==
    /\ published = NoClient
    /\ gpuState = NoGpuState
    /\ ran = NoRun

\* The Client as constructed, no resource in the state, the provider not
\* configured.
PodInit ==
    /\ Init
    /\ PodStateInit
    /\ ProviderInit
    /\ wire = NoWire
    /\ decoded = NotDecoded

\* The same with a JSON value for the decoder of env.
EnvInit ==
    /\ Init
    /\ PodStateInit
    /\ ProviderInit
    /\ wire \in Wires
    /\ decoded = NotDecoded

\* The host id of the response dropped.
CreateState_NoHost(data, pod) ==
    [ data EXCEPT
        !.ID = Known(pod.ID),
        !.MachineID = IF pod.MachineID # "" THEN Known(pod.MachineID) ELSE @ ]

\* Create, after CreatePod returned pod: the data it hands to State.Set.
CreateState(data, pod) ==
    [ data EXCEPT
        !.ID = Known(pod.ID),
        !.MachineID = IF pod.MachineID # "" THEN Known(pod.MachineID) ELSE @,
        !.PodHostID = IF ~pod.Machine.nil /\ pod.Machine.PodHostID # ""
                      THEN Known(pod.Machine.PodHostID) ELSE @ ]

\* terraform apply of a configuration for a resource not in the state (never
\* created, or just destroyed by the replacement under way): the
\* configuration is validated against the schema, the plan is the
\* configuration with the schema's defaults, and Create runs on the plan.
Create(cfg, k, o) ==
    /\ ~tracked
    /\ replacing \in {NoConfig, cfg}
    /\ replacing' = NoConfig
    /\ UNCHANGED before
    /\ IF ~SchemaAccepts(cfg)
       THEN /\ last' = Ran("Create", cfg, o, <<>>, OpResult(<<>>, NoPod),
                           <<"Unsupported argument">>)
            /\ UNCHANGED <<tracked, state, baseline, reads>>
       ELSE LET data == PlanOf(cfg)
                input == PodInputOf(data)
                reqs == <<Request("CreatePod", "", CreatePodInputMap(input))>>
                res == CreatePodResult(k, o)
            IN  IF res.err # <<>>
                THEN /\ last' = Ran("Create", cfg, o, reqs, res,
                                    <<"Unable to create pod: ">> \o res.err)
                     /\ UNCHANGED <<tracked, state, baseline, reads>>
                ELSE /\ last' = Ran("Create", cfg, o, reqs, res, NoDiag)
                     /\ tracked' = TRUE
                     /\ state' = CreateState(data, res.pod)
                     /\ baseline' = state'
                     /\ reads' = "none"
    /\ UNCHANGED <<vars, provVars>>

\* Every error of the fetch counted as "not found".
ReadNotFound_Always(err) == TRUE

\* Only the GraphQL message counted as "not found".
ReadNotFound_OnlyGraphQL(err) ==
    Contains(err, <<"GraphQL error: ">> \o PodNotFoundText)

\* strings.Contains(err.Error(), "not found") ||
\* strings.Contains(err.Error(), "Pod not found")
ReadNotFound(err) == Contains(err, NotFoundText) \/ Contains(err, PodNotFoundText)

\* Remote-empty values taken as they come.
TakeIfPresent_Always(prior, present, v) == Known(v)

\* if <present> { data.X = types.XValue(v) }
TakeIfPresent(prior, present, v) == IF present THEN Known(v) ELSE prior

\* A cloud type in the state cleared, an empty one set to the default.
ReadCloudType_Flips(data) ==
    IF IsNull(data.CloudType) \/ IsUnknown(data.CloudType) THEN Known("ALL")
    ELSE NullS

\* The default applied whatever the state holds.
ReadCloudType_AlwaysDefault(data) == Known("ALL")

\* if data.CloudType.IsNull() || data.CloudType.IsUnknown() { ... "ALL" }
ReadCloudType(data) ==
    IF IsNull(data.CloudType) \/ IsUnknown(data.CloudType) THEN Known("ALL")
    ELSE data.CloudType

EnvOf(pod) == { <<pod.Env[i].Key, pod.Env[i].Value>> : i \in 1..Len(pod.Env) }

\* The id of the fetched pod written to the state.
ReadState_IDFromRemote(data, pod) ==
    [ data EXCEPT
        !.ID = Known(pod.ID),
        !.Name = Known(pod.Name),
        !.ImageName = Known(pod.ImageName),
        !.GpuTypeID = TakeIfPresent(@, ~pod.Machine.nil /\ pod.Machine.GpuTypeID # "",
                                    pod.Machine.GpuTypeID),
        !.GpuCount = Known(pod.GpuCount),
        !.VolumeInGb = Known(pod.VolumeInGb),
        !.ContainerDiskInGb = Known(pod.ContainerDiskInGb),
        !.Ports = TakeIfPresent(@, pod.Ports # "", pod.Ports),
        !.VolumeMountPath =
            TakeIfPresent(@, pod.VolumeMountPath # "", pod.VolumeMountPath),
        !.DockerArgs = TakeIfPresent(@, pod.DockerArgs # "", pod.DockerArgs),
        !.MachineID = TakeIfPresent(@, pod.MachineID # "", pod.MachineID),
        !.PodHostID = TakeIfPresent(@, ~pod.Machine.nil /\ pod.Machine.PodHostID # "",
                                    pod.Machine.PodHostID),
        !.CloudType = ReadCloudType(data) ]

\* The env of the fetched pod written to the state.
ReadState_EnvFromRemote(data, pod) ==
    [ data EXCEPT
        !.Name = Known(pod.Name),
        !.ImageName = Known(pod.ImageName),
        !.GpuTypeID = TakeIfPresent(@, ~pod.Machine.nil /\ pod.Machine.GpuTypeID # "",
                                    pod.Machine.GpuTypeID),
        !.GpuCount = Known(pod.GpuCount),
        !.VolumeInGb = Known(pod.VolumeInGb),
        !.ContainerDiskInGb = Known(pod.ContainerDiskInGb),
        !.Ports = TakeIfPresent(@, pod.Ports # "", pod.Ports),
        !.VolumeMountPath =
            TakeIfPresent(@, pod.VolumeMountPath # "", pod.VolumeMountPath),
        !.DockerArgs = TakeIfPresent(@, pod.DockerArgs # "", pod.DockerArgs),
        !.MachineID = TakeIfPresent(@, pod.MachineID # "", pod.MachineID),
        !.PodHostID = TakeIfPresent(@, ~pod.Machine.nil /\ pod.Machine.PodHostID # "",
                                    pod.Machine.PodHostID),
        !.Env = Known(EnvOf(pod)),
        !.CloudType = ReadCloudType(data) ]

\* Read, after GetPod returned pod: the data it hands to State.Set.
ReadState(data, pod) ==
    [ data EXCEPT
        !.Name = Known(pod.Name),
        !.ImageName = Known(pod.ImageName),
        !.GpuTypeID = TakeIfPresent(@, ~pod.Machine.nil /\ pod.Machine.GpuTypeID # "",
                                    pod.Machine.GpuTypeID),
        !.GpuCount = Known(pod.GpuCount),
        !.VolumeInGb = Known(pod.VolumeInGb),
        !.ContainerDiskInGb = Known(pod.ContainerDiskInGb),
        !.Ports = TakeIfPresent(@, pod.Ports # "", pod.Ports),
        !.VolumeMountPath =
            TakeIfPresent(@, pod.VolumeMountPath # "", pod.VolumeMountPath),
        !.DockerArgs = TakeIfPresent(@, pod.DockerArgs # "", pod.DockerArgs),
        !.MachineID = TakeIfPresent(@, pod.MachineID # "", pod.MachineID),
        !.PodHostID = TakeIfPresent(@, ~pod.Machine.nil /\ pod.Machine.PodHostID # "",
                                    pod.Machine.PodHostID),
        !.CloudType = ReadCloudType(data) ]

Bump(n) == IF n = "none" THEN "one" ELSE "many"

\* Read of the resource in the state.
Read(k, o) ==
    /\ tracked
    /\ LET reqs == <<Request("GetPod", state.ID.v, NoInput)>>
           res == GetPodResult(state.ID.v, k, o)
       IN  IF res.err # <<>>
           THEN IF ReadNotFound(res.err)
                THEN /\ last' = Ran("Read", NoConfig, o, reqs, res, NoDiag)
                     /\ tracked' = FALSE
                     /\ state' = NoState
                     /\ baseline' = NoState
                     /\ reads' = "none"
                     /\ before' = NoState
                ELSE /\ last' = Ran("Read", NoConfig, o, reqs, res,
                                    <<"Unable to read pod: ">> \o res.err)
                     /\ UNCHANGED <<tracked, state, baseline, reads, before>>
           ELSE /\ last' = Ran("Read", NoConfig, o, reqs, res, NoDiag)
                /\ state' = ReadState(state, res.pod)
                /\ reads' = Bump(reads)
                /\ UNCHANGED <<tracked, baseline, before>>
    /\ UNCHANGED <<replacing, vars, provVars>>

\* Every error of the terminate ignored.
DeleteNotFound_Always(err) == TRUE

\* Only an error that is exactly "not found" ignored.
DeleteNotFound_Exact(err) == err = NotFoundText

\* strings.Contains(err.Error(), "not found")
DeleteNotFound(err) == Contains(err, NotFoundText)

\* The Delete handler on the resource in the state, run for the
\* configuration cfg that replaces it (NoConfig: a plain destroy); the state
\* is dropped when the handler returns without an error diagnostic.
DeleteRun(cfg, k, o) ==
    LET reqs == <<Request("TerminatePod", state.ID.v, NoInput)>>
        res == TerminatePodResult(k, o)
    IN  IF res.err # <<>> /\ ~DeleteNotFound(res.err)
        THEN /\ last' = Ran("Delete", cfg, o, reqs, res,
                            <<"Unable to terminate pod: ">> \o res.err)
             /\ UNCHANGED <<tracked, state, baseline, reads, replacing, before>>
        ELSE /\ last' = Ran("Delete", cfg, o, reqs, res, NoDiag)
             /\ tracked' = FALSE
             /\ state' = NoState
             /\ baseline' = NoState
             /\ reads' = "none"
             /\ replacing' = cfg
             /\ before' = NoState

\* terraform destroy of the resource in the state.
Delete(k, o) ==
    /\ tracked
    /\ DeleteRun(NoConfig, k, o)
    /\ UNCHANGED <<vars, provVars>>

\* terraform apply of a configuration whose plan differs from the state in
\* an attribute marked RequiresReplace: the resource is destroyed, and
\* Create follows for the same configuration.
Replace(cfg, k, o) ==
    /\ tracked
    /\ SchemaAccepts(cfg)
    /\ NeedsReplace(PlanForUpdate(cfg, state), state)
    /\ DeleteRun(cfg, k, o)
    /\ UNCHANGED <<vars, provVars>>

\* An Update that answers with the state it found.
UpdateState_KeepsState(plan, prior) == prior

\* Update: the plan with the computed attributes of the state.
UpdateState(plan, prior) ==
    [ plan EXCEPT
        !.ID = prior.ID,
        !.MachineID = prior.MachineID,
        !.PodHostID = prior.PodHostID ]

\* An Update that sends the new name to the remote.
Update_Renames(cfg) ==
    /\ tracked
    /\ SchemaAccepts(cfg)
    /\ LET plan == PlanForUpdate(cfg, state) IN
        /\ plan # state
        /\ ~NeedsReplace(plan, state)
        /\ last' = Ran("Update", cfg, NoOutcome,
                       <<Request("UpdatePod", state.ID.v, NoInput)>>,
                       OpResult(<<>>, NoPod), NoDiag)
        /\ state' = UpdateState(plan, state)
        /\ baseline' = state'
        /\ reads' = "none"
    /\ UNCHANGED <<tracked, replacing, before, vars, provVars>>

\* terraform apply of a configuration whose plan differs from the state in
\* no attribute marked RequiresReplace: Update runs on the plan.
Update(cfg) ==
    /\ tracked
    /\ SchemaAccepts(cfg)
    /\ LET plan == PlanForUpdate(cfg, state) IN
        /\ plan # state
        /\ ~NeedsReplace(plan, state)
        /\ last' = Ran("Update", cfg, NoOutcome, <<>>, OpResult(<<>>, NoPod),
                       NoDiag)
        /\ state' = UpdateState(plan, state)
        /\ baseline' = state'
        /\ reads' = "none"
    /\ UNCHANGED <<tracked, replacing, before, vars, provVars>>

ImportIDs == {"p1"}

\* terraform import: resource.ImportStatePassthroughID seeds a state with
\* the id and nothing else.
ImportState(id) ==
    /\ ~tracked
    /\ replacing = NoConfig
    /\ last' = Ran("ImportState", NoConfig, NoOutcome, <<>>, OpResult(<<>>, NoPod),
                   NoDiag)
    /\ tracked' = TRUE
    /\ state' = [NoState EXCEPT !.ID = Known(id)]
    /\ baseline' = state'
    /\ reads' = "none"
    /\ UNCHANGED <<replacing, before, vars, provVars>>

\* The ImportState step of an acceptance test (ImportState: true,
\* ImportStateVerify: true): the resource in the state is imported by its
\* id into a fresh state, and the state it had is kept to compare with.
ImportStateVerify ==
    /\ tracked
    /\ ~IsNull(state.ID)
    /\ last' = Ran("ImportState", NoConfig, NoOutcome, <<>>, OpResult(<<>>, NoPod),
                   NoDiag)
    /\ state' = [NoState EXCEPT !.ID = state.ID]
    /\ baseline' = state'
    /\ reads' = "none"
    /\ before' = state
    /\ UNCHANGED <<tracked, replacing, vars, provVars>>

PodNext ==
    \/ \E cfg \in Configs, k \in PodRetries, o \in PodOutcomes : Create(cfg, k, o)
    \/ \E k \in PodRetries, o \in PodOutcomes : Read(k, o)
    \/ \E k \in PodRetries, o \in PodOutcomes : Delete(k, o)
    \/ \E id \in ImportIDs : ImportState(id)

\* The Client under concurrent callers.
Spec == PodInit /\ [][Next]_allVars

\* One outcome for each way the loop body can go on: the transport fails,
\* a 429 (retried, and returned as an error on the last attempt), and a
\* response that doRequest returns.
FairOutcomes ==
    { o \in Outcomes : \/ o.doErr
                       \/ ~o.readErr /\ o.status = StatusTooManyRequests
                       \/ o.body = OkBody }

\* The callers that call concurrently under fair scheduling.
NumFairCallers == 2

FairCallers == 1..NumFairCallers

FairNext ==
    \E c \in FairCallers :
        \/ doRequest(c)
        \/ Lock(c)
        \/ Do(c)
        \/ \E o \in FairOutcomes : Receive(c, o)
        \/ Sleep(c)
        \/ Unlock(c)

\* The scheduling that the runtime and the HTTP client give: a goroutine
\* that can take a step takes it, c.httpClient.Do returns within
\* httpClient.Timeout, time.Sleep returns, and a caller blocked in
\* c.mu.Lock() that finds the mutex free again and again gets it.
Fairness ==
    \A c \in FairCallers :
        /\ SF_allVars(Lock(c))
        /\ WF_allVars(Do(c))
        /\ WF_allVars(\E o \in FairOutcomes : Receive(c, o))
        /\ WF_allVars(Sleep(c))
        /\ WF_allVars(Unlock(c))

\* The Client under concurrent callers and fair scheduling.
SpecFair == PodInit /\ [][FairNext]_allVars /\ Fairness

\* The answers of the remote while configurations are applied: a pod as
\* created, a pod that differs in every field, a pod with an id only, a
\* GraphQL error and a transport failure.
FetchOutcomes ==
    { Answer(200, PodBody(TRUE, <<>>, Data("pod", p), <<"{}">>))
      : p \in {PodEcho, PodDrift, PodBare} }
    \cup { Answer(200, PodBody(TRUE, <<<<"boom">>>>, Data("null", NoPod), <<"{}">>)),
           [doErr |-> TRUE, readErr |-> FALSE, status |-> 0, body |-> NoBody] }

\* The answers to a terminate: done, a GraphQL error, a transport failure.
TerminateOutcomes ==
    { Answer(200, PodBody(TRUE, <<>>, Data("null", NoPod), <<"{}">>)),
      Answer(200, PodBody(TRUE, <<<<"boom">>>>, Data("null", NoPod), <<"{}">>)),
      [doErr |-> TRUE, readErr |-> FALSE, status |-> 0, body |-> NoBody] }

\* terraform apply, refresh, destroy and import of one resource, with the
\* configuration changing between applies.
ApplyNext ==
    \/ \E cfg \in ApplyConfigs, o \in FetchOutcomes : Create(cfg, 0, o)
    \/ \E o \in FetchOutcomes : Read(0, o)
    \/ \E cfg \in ApplyConfigs : Update(cfg)
    \/ \E o \in TerminateOutcomes : Delete(0, o)
    \/ \E cfg \in ApplyConfigs, o \in TerminateOutcomes : Replace(cfg, 0, o)
    \/ ImportStateVerify

\* One pod resource under changing configurations.
SpecApply == PodInit /\ [][ApplyNext]_allVars

\* One pod resource through its lifecycle.
SpecPod == PodInit /\ [][PodNext]_allVars

\* ------------------------------------------------- provider and catalog
\* RunpodProvider.Configure with api_key = key and RUNPOD_API_KEY = envKey;
\* Ping gets k retried answers and then o.
Configure(key, envKey, k, o) ==
    LET apiKey == IF ~IsNull(key) THEN key.v ELSE envKey
        ping == doRequestResult(k, o)
        diag == IF apiKey = "" THEN MissingAPIKey
                ELSE IF ping.err # ""
                THEN <<"Unable to Create RunPod API Client", "Error: ">>
                     \o ErrText(ping)
                ELSE NoDiag
    IN  /\ ran' = ProviderRan("Configure", key, envKey, NoFilter, o,
                              IF apiKey = "" THEN <<>>
                              ELSE <<GqlRequest(<<"query { myself { id } }">>,
                                                NilVariables)>>,
                              apiKey, diag)
        /\ published' = IF diag = NoDiag THEN NewClient(apiKey) ELSE NoClient
        /\ UNCHANGED <<gpuState, wire, decoded, vars, podVars>>

\* GpuTypesDataSource.Read with the filter of its configuration.
GpuTypesRead(filter, k, o) ==
    /\ ~published.nil
    /\ LET byID == ~filter.nil /\ ~IsNull(filter.ID)
           res == IF byID THEN GetGpuTypeResult(filter.ID.v, k, o)
                  ELSE ListGpuTypesResult(k, o)
           req == IF byID THEN GetGpuTypeRequest(filter.ID.v)
                  ELSE ListGpuTypesRequest
           diag == IF res.err = <<>> THEN NoDiag
                   ELSE IF byID THEN <<"Unable to read GPU type: ">> \o res.err
                   ELSE <<"Unable to list GPU types: ">> \o res.err
       IN  /\ ran' = ProviderRan("GpuTypesRead", NullS, "", filter, o, <<req>>,
                                 published.apiKey, diag)
           /\ IF diag # NoDiag THEN UNCHANGED gpuState
              ELSE gpuState' =
                     [ ID |-> Known("gpu_types"),
                       GpuTypes |-> [ i \in 1..Len(res.gpuTypes) |->
                                        GpuTypeModel(res.gpuTypes[i]) ],
                       Filter |-> filter ]
    /\ UNCHANGED <<published, wire, decoded, vars, podVars>>

ProviderNext ==
    \/ \E key \in APIKeys, envKey \in EnvKeys, k \in PodRetries,
          o \in ProviderOutcomes : Configure(key, envKey, k, o)
    \/ \E filter \in Filters, k \in PodRetries, o \in ProviderOutcomes :
          GpuTypesRead(filter, k, o)

\* The provider and its data source.
SpecProvider == PodInit /\ [][ProviderNext]_allVars

\* A response that carries the pod as created.
PodCreated == Answer(200, PodBody(TRUE, <<>>, Data("pod", PodEcho), <<"{}">>))

\* A response that carries the whole catalog.
CatalogListed ==
    Answer(200, PodBody(TRUE, <<>>, GpuData("list", <<A4000, A5000>>), <<"{}">>))

CatalogNext ==
    \/ \E key \in {NullS, Known("k1")} : Configure(key, "k2", 0, CatalogListed)
    \/ \E filter \in Filters, o \in ProviderOutcomes : GpuTypesRead(filter, 0, o)
    \/ Create(CfgMin, 0, PodCreated)
    \/ Read(0, PodCreated)

\* The provider, its data source and a pod resource side by side.
SpecCatalog == PodInit /\ [][CatalogNext]_allVars

\* json.Unmarshal of the env member of a pod into an EnvVars.
UnmarshalJSON ==
    /\ ~decoded.done
    /\ decoded' = EnvVarsUnmarshalJSON(decoded.e, wire)
    /\ UNCHANGED <<wire, published, gpuState, ran, vars, podVars>>

\* The decoder of env on every JSON value within the bounds.
SpecEnv == EnvInit /\ [][UnmarshalJSON]_allVars

\* ---------------------------------------------------------------- claims

\* C1: whatever the remote answers (429, 503, other statuses, transport
\* failures, GraphQL errors), one call of doRequest issues at most 5 HTTP
\* attempts.
C1_AtMostFiveAttempts == \A c \in Callers : Attempts(c) <= 5

C1_Witness == \E c \in Callers : Attempts(c) = 5 /\ pc[c] = "ret"

\* C2: when every one of the 5 attempts of an exchange receives a 429 or a
\* 503 status, doRequest returns the error "max retries exceeded" and no
\* other error.
C2_MaxRetriesExceeded ==
    \A c \in Callers :
        ( /\ pc[c] = "ret"
          /\ Len(ResponsesOf(c)) = 5
          /\ NoTransportFailure(c)
          /\ \A i \in 1..5 : StatusesOf(c)[i] \in {429, 503} )
        => result[c].err = "max retries exceeded"

\* C3: the k-th backoff sleep of a call (k = 0..3) follows the 429 or 503
\* answer to attempt k and lasts 2 * 2^k time units (2, 4, 8, 16), so the
\* delays strictly increase; there are at most 4 sleeps and none after the
\* 5th attempt.
C3_BackoffDelays ==
    \A c \in Callers :
        LET ev == events[c]
            s == SleepsOf(c)
        IN  /\ Len(s) <= 4
            /\ \A k \in 1..Len(s) : s[k].val = <<2, 4, 8, 16>>[k]
            /\ \A k \in 1..(Len(s) - 1) : s[k].val < s[k + 1].val
            /\ \A i \in 1..Len(ev) :
                ev[i].type = "sleep" =>
                    /\ i >= 3
                    /\ ev[i - 2].type = "req"
                    /\ ev[i - 1].type = "resp"
                    /\ ev[i - 1].fail = "none"
                    /\ ev[i - 1].val \in {429, 503}
                    /\ ev[i - 2].val \in 0..3
                    /\ ev[i].val = 2 * (2 ^ ev[i - 2].val)
            /\ Attempts(c) = 5 => (pc[c] # "sleep" /\ ev[Len(ev)].type # "sleep")

C3_Witness ==
    \E c \in Callers :
        /\ pc[c] = "ret"
        /\ Attempts(c) = 5
        /\ [k \in 1..Len(SleepsOf(c)) |-> SleepsOf(c)[k].val] = <<2, 4, 8, 16>>

\* C4: when the remote answers 429, 429, 200 and the 200 body is an envelope
\* without errors, doRequest makes exactly 3 attempts, sleeps exactly twice,
\* 2 then 4 time units, each sleep between two attempts, and returns the data
\* of the 200 response.
C4_Case(c) ==
    /\ pc[c] = "ret"
    /\ StatusesOf(c) = <<429, 429, 200>>
    /\ NoTransportFailure(c)
    /\ resp[c].body.valid
    /\ resp[c].body.errors = <<>>

C4_RetryThenSuccess ==
    \A c \in Callers :
        C4_Case(c) =>
            /\ Attempts(c) = 3
            /\ Trace(c) = << <<"req", 0>>, <<"resp", 429>>, <<"sleep", 2>>,
                             <<"req", 1>>, <<"resp", 429>>, <<"sleep", 4>>,
                             <<"req", 2>>, <<"resp", 200>> >>
            /\ result[c].err = ""
            /\ result[c].data = resp[c].body.data

C4_Witness == \E c \in Callers : C4_Case(c) /\ result[c].data = "d1"

\* C5: a transport failure (the HTTP call errors, or the body cannot be
\* read) on any attempt ends doRequest at once with that failure: it is the
\* last event of the call, no attempt and no sleep follows it.
C5_TransportFailsFast ==
    \A c \in Callers :
        \A i \in 1..Len(events[c]) :
            (events[c][i].type = "resp" /\ events[c][i].fail # "none") =>
                /\ i = Len(events[c])
                /\ pc[c] = "ret"
                /\ result[c].err = IF events[c][i].fail = "do"
                                   THEN "failed to execute request"
                                   ELSE "failed to read response body"

C5_Witness ==
    \E c \in Callers :
        /\ pc[c] = "ret"
        /\ Attempts(c) >= 2
        /\ resp[c].doErr

\* C6: a response with a status >= 400 other than 429 and 503 makes
\* doRequest fail on that attempt with an error carrying the status and the
\* response body; no retry and no sleep follows it.
C6_HttpErrorFailsFast ==
    \A c \in Callers :
        \A i \in 1..Len(events[c]) :
            ( /\ events[c][i].type = "resp"
              /\ events[c][i].fail = "none"
              /\ events[c][i].val >= 400
              /\ events[c][i].val \notin {429, 503} ) =>
                /\ i = Len(events[c])
                /\ pc[c] = "ret"
                /\ resp[c].status = events[c][i].val
                /\ result[c] = Result("API returned status", events[c][i].val,
                                      resp[c].body, "", "none")

C6_Witness ==
    \E c \in Callers :
        /\ pc[c] = "ret"
        /\ Attempts(c) >= 2
        /\ resp[c].status = 500
        /\ ~resp[c].doErr /\ ~resp[c].readErr
        /\ resp[c].body = ErrBody

\* C7: when a response with status < 400 carries an envelope whose errors
\* array is not empty, doRequest returns an error made of the first error's
\* message and no data, even when the envelope has data; data is returned
\* only when the errors array is empty.
C7_Case(c) ==
    /\ pc[c] = "ret"
    /\ ~resp[c].doErr /\ ~resp[c].readErr
    /\ resp[c].status < 400
    /\ resp[c].body.valid

C7_ErrorsHideData ==
    \A c \in Callers :
        /\ (C7_Case(c) /\ resp[c].body.errors # <<>>) =>
                /\ result[c].err = "GraphQL error"
                /\ result[c].msg = Head(resp[c].body.errors)
                /\ result[c].data = "none"
        /\ (pc[c] = "ret" /\ result[c].err = "") =>
                /\ C7_Case(c)
                /\ resp[c].body.errors = <<>>
                /\ result[c].data = resp[c].body.data

C7_Witness ==
    \E c \in Callers :
        /\ C7_Case(c)
        /\ Len(resp[c].body.errors) = 2
        /\ resp[c].body.data = "d1"

\* C8: with any number of callers sharing the Client, in any mix of its
\* operations, at most one HTTP request is in flight at any time.
C8_SingleFlight == Cardinality({c \in Callers : pc[c] = "inflight"}) <= 1

C8_Witness ==
    \E c \in Callers :
        /\ pc[c] = "inflight"
        /\ Cardinality({d \in Callers : pc[d] = "lock"}) >= 2

\* C9: an exchange is atomic: from its first attempt until doRequest
\* returns, its backoff sleeps included, no other exchange on the same
\* Client issues an attempt.
C9_AtomicExchange ==
    [][\A c, d \in Callers :
        (c # d /\ Attempts(c) >= 1) => Attempts(d)' <= Attempts(d)]_vars

C9_Witness ==
    \E c, d \in Callers :
        /\ pc[c] = "sleep"
        /\ Attempts(c) >= 2
        /\ pc[d] = "lock"

\* C10: exchanges run in submission order: when caller a calls doRequest
\* before caller b, both while the lock is held by one and the same third
\* exchange, b's exchange does not start while a still waits for the lock.
C10_Case(a, b) ==
    /\ a # b
    /\ heldAt[a] # 0
    /\ heldAt[a] = heldAt[b]
    /\ ticket[a] < ticket[b]

C10_FIFO ==
    \A a, b \in Callers :
        (C10_Case(a, b) /\ pc[a] = "lock") => b \notin InExchange

\* C10 as amended: a caller that called doRequest while the lock was held by
\* another exchange starts its own exchange only after that exchange has
\* returned; among the callers waiting, any one may be next.
C10_StartsAfterHolderReturns ==
    \A c \in Callers :
        (c \in InExchange /\ heldAt[c] # 0) => returned >= heldAt[c]

C10_Witness ==
    \E a, b \in Callers :
        /\ C10_Case(a, b)
        /\ pc[a] = "lock"
        /\ pc[b] = "inflight"
        /\ returned = heldAt[b]

\* ------------------------------------------- claims on the pod resource
\* The last handler run was op and added no error diagnostic.
Succeeded(op) == last.op = op /\ last.diag = NoDiag

\* The exchange of the last handler run got an answer from the remote: a
\* request could be built and the transport delivered a body.
Answered == urlOK /\ ~last.out.doErr /\ ~last.out.readErr

\* The answer is a GraphQL envelope, HTTP status below 400.
Envelope == Answered /\ last.out.status < 400 /\ last.out.body.valid

\* The answer reports the GraphQL error "Pod not found".
SaysPodNotFound ==
    /\ Envelope
    /\ Len(last.out.body.errors) > 0
    /\ last.out.body.errors[1] = PodNotFoundText

\* The answer has no errors and a null pod object.
SaysNullPod ==
    /\ Envelope
    /\ last.out.body.errors = <<>>
    /\ last.out.body.data.kind \in {"null", "nopod"}

C11_Case == last.op = "Read" /\ last.priorTracked /\ (SaysPodNotFound \/ SaysNullPod)

\* C11: a Read of a tracked pod whose fetch is answered with the GraphQL
\* error "Pod not found", or with no error and a null pod, removes the
\* resource from the state and adds no error diagnostic.
C11_ReadNotFoundRemoves ==
    C11_Case => /\ ~tracked
                /\ state = NoState
                /\ last.diag = NoDiag

C11_Witness == C11_Case /\ SaysNullPod /\ ~tracked /\ last.prior.ID = Known("p1")

C12_Case ==
    /\ last.op = "Delete"
    /\ last.priorTracked
    /\ Contains(last.res.err, NotFoundText)

\* C12: a Delete of a tracked pod whose terminate fails with a message
\* that contains "not found" adds no error diagnostic and leaves the
\* resource deleted.
C12_DeleteNotFoundSucceeds ==
    C12_Case => /\ last.diag = NoDiag
                /\ ~tracked
                /\ state = NoState

C12_Witness == C12_Case /\ SaysPodNotFound /\ ~tracked

\* The create exchange failed: no request, a transport failure, an HTTP
\* status of 400 or more, a body that is no envelope, a GraphQL error, or
\* no pod in the data.
CreateExchangeFailed ==
    \/ ~Answered
    \/ last.out.status >= 400
    \/ ~last.out.body.valid
    \/ Len(last.out.body.errors) > 0
    \/ last.out.body.data.kind # "pod"

C13_Case == last.op = "Create" /\ SchemaAccepts(last.cfg) /\ CreateExchangeFailed

\* C13: a Create whose exchange fails, for whatever reason, adds an error
\* diagnostic and sets no state: the resource stays absent.
C13_CreateFailureSetsNoState ==
    C13_Case => /\ last.diag # NoDiag
                /\ ~tracked
                /\ state = NoState

C13_Witness == C13_Case /\ SaysPodNotFound /\ last.diag # NoDiag

\* The attributes that neither Create nor the remote assigns.
ConfiguredFields == (DOMAIN NoState) \ {"ID", "MachineID", "PodHostID"}

C14_Case ==
    /\ Succeeded("Create")
    /\ SchemaAccepts(last.cfg)
    /\ last.res.pod.MachineID # ""

\* C14 as stated: after a Create answered with id p and machineId m the
\* state has id = p and machine_id = m, and every other attribute holds
\* the value planned from the configuration.
C14_OthersAsConfigured ==
    C14_Case =>
        /\ state.ID = Known(last.res.pod.ID)
        /\ state.MachineID = Known(last.res.pod.MachineID)
        /\ \A f \in (DOMAIN NoState) \ {"ID", "MachineID"} :
                state[f] = PlanOf(last.cfg)[f]

\* C14, amended: after a Create answered with id p and machineId m the
\* state has id = p and machine_id = m, pod_host_id is the host id of the
\* answer's machine object when it has one and the planned value
\* otherwise, and every other attribute holds the value planned from the
\* configuration.
C14_CreateSeedsState ==
    C14_Case =>
        /\ state.ID = Known(last.res.pod.ID)
        /\ state.MachineID = Known(last.res.pod.MachineID)
        /\ state.PodHostID =
              IF ~last.res.pod.Machine.nil /\ last.res.pod.Machine.PodHostID # ""
              THEN Known(last.res.pod.Machine.PodHostID)
              ELSE PlanOf(last.cfg).PodHostID
        /\ \A f \in ConfiguredFields : state[f] = PlanOf(last.cfg)[f]

C14_Witness ==
    /\ C14_Case
    /\ last.cfg = CfgFull
    /\ state.ID = Known("p1")
    /\ state.MachineID = Known("m1")
    /\ state.PodHostID = Known("h1")
    /\ state.Env = CfgFull.Env

\* C15: a Create for a configuration with a list of GPU-type candidates
\* sends exactly one create exchange, whose gpuTypeId is the first
\* candidate of the list.
C15_FirstCandidateSent ==
    (last.op = "Create" /\ ~IsNull(last.cfg.GpuTypeIDs)) =>
        /\ Len(last.reqs) = 1
        /\ last.reqs[1].op = "CreatePod"
        /\ last.reqs[1].input.gpuTypeId = Sent(last.cfg.GpuTypeIDs.v[1])

WriteOnlyFields ==
    { "Env", "MinVcpuCount", "MinMemoryInGb", "NetworkVolumeID", "TemplateID",
      "DataCenterID", "SupportPublicIP", "StartSSH" }

\* C16: after any number of successful Reads every write-only attribute
\* (env, min_vcpu_count, min_memory_in_gb, network_volume_id, template_id,
\* data_center_id, support_public_ip, start_ssh) has the value it had
\* before the first of them, whatever the fetched pods held.
C16_WriteOnlyKept ==
    (tracked /\ reads # "none") =>
        \A f \in WriteOnlyFields : state[f] = baseline[f]

C16_Witness ==
    /\ tracked
    /\ reads = "many"
    /\ Succeeded("Read")
    /\ last.res.pod = PodDrift
    /\ baseline.Env = CfgFull.Env
    /\ state.Env = CfgFull.Env
    /\ state.StartSSH = Known(FALSE)

C17_Case == Succeeded("Read") /\ tracked /\ last.res.pod.CloudType = ""

\* C17: after a successful Read of a pod without cloud type, cloud_type
\* is the value it had when that value was known, and "ALL" when it was
\* null or unknown.
C17_CloudTypeKeptOrDefault ==
    C17_Case =>
        state.CloudType = IF last.prior.CloudType.k = "known"
                          THEN last.prior.CloudType ELSE Known("ALL")

C17_Witness ==
    /\ C17_Case
    /\ last.prior.CloudType = Known("SECURE")
    /\ state.CloudType = Known("SECURE")

\* C18: after a successful Read of a pod that carries a cloud type,
\* cloud_type is the cloud type of that pod.
C18_RemoteCloudTypeWins ==
    (Succeeded("Read") /\ tracked /\ last.res.pod.CloudType # "") =>
        state.CloudType = Known(last.res.pod.CloudType)

\* The write-once attributes with what the fetched pod carries for each:
\* whether it is present, and its value.
Carried(pod) ==
    [ ImageName |-> <<pod.ImageName # "", pod.ImageName>>,
      GpuTypeID |-> <<~pod.Machine.nil /\ pod.Machine.GpuTypeID # "",
                      pod.Machine.GpuTypeID>>,
      VolumeInGb |-> <<pod.VolumeInGb # 0, pod.VolumeInGb>>,
      Ports |-> <<pod.Ports # "", pod.Ports>>,
      VolumeMountPath |-> <<pod.VolumeMountPath # "", pod.VolumeMountPath>>,
      DockerArgs |-> <<pod.DockerArgs # "", pod.DockerArgs>> ]

\* C19: after a successful Read every write-once attribute (image_name,
\* gpu_type_id, volume_in_gb, ports, volume_mount_path, docker_args) is
\* the value the fetched pod carries for it, and the value it had when
\* the pod carries none.
C19_WriteOnceKeptWhenOmitted ==
    (Succeeded("Read") /\ tracked) =>
        \A f \in DOMAIN Carried(NoPod) :
            LET c == Carried(last.res.pod)[f] IN
            state[f] = IF c[1] THEN Known(c[2]) ELSE last.prior[f]

\* C20: after a successful Read machine_id is the machineId of the
\* fetched pod and pod_host_id the host id of its machine object when
\* the pod carries them, and each keeps the value it had when the pod
\* carries none (empty machineId, no machine object, empty host id).
C20_ServerOwnedKeptWhenAbsent ==
    (Succeeded("Read") /\ tracked) =>
        /\ state.MachineID = IF last.res.pod.MachineID # ""
                             THEN Known(last.res.pod.MachineID)
                             ELSE last.prior.MachineID
        /\ state.PodHostID =
              IF ~last.res.pod.Machine.nil /\ last.res.pod.Machine.PodHostID # ""
              THEN Known(last.res.pod.Machine.PodHostID)
              ELSE last.prior.PodHostID

C20_Witness ==
    /\ Succeeded("Read")
    /\ tracked
    /\ last.res.pod = PodBare
    /\ last.prior.MachineID = Known("m1")
    /\ last.prior.PodHostID = Known("h1")
    /\ state.MachineID = Known("m1")
    /\ state.PodHostID = Known("h1")

\* C21: an Update calls no operation of the Client, and sets the state to
\* the planned configuration with id, machine_id and pod_host_id as the
\* state had them.
C21_UpdateIsLocal ==
    last.op = "Update" =>
        /\ last.reqs = <<>>
        /\ last.diag = NoDiag
        /\ tracked
        /\ state.ID = last.prior.ID
        /\ state.MachineID = last.prior.MachineID
        /\ state.PodHostID = last.prior.PodHostID
        /\ \A f \in ConfiguredFields : state[f] = PlanOf(last.cfg)[f]

C21_Witness ==
    /\ last.op = "Update"
    /\ last.cfg = CfgRenamed
    /\ last.prior.Name = Known("x")
    /\ state.Name = Known("y")
    /\ state.Env = CfgRenamed.Env
    /\ state.ID = Known("p1")
    /\ state.MachineID = Known("m1")

\* C22: while the resource stays in the state, no Read and no Update
\* changes its id, whatever the fetched pod holds.
C22_IdImmutable ==
    [][ (tracked /\ tracked' /\ last'.op \in {"Read", "Update"})
            => state'.ID = state.ID ]_allVars

C22_Witness ==
    /\ Succeeded("Read")
    /\ tracked
    /\ last.res.pod.ID = "p2"
    /\ last.prior.ID = Known("p1")
    /\ state.ID = Known("p1")

\* The handler of the last run was entered (a Create only for a
\* configuration the schema accepts).
HandlerRan ==
    /\ last.op \in {"Create", "Read", "Update", "Delete"}
    /\ last.op = "Create" => SchemaAccepts(last.cfg)

\* C27 as stated: each run of Create, Read, Update and Delete calls
\* exactly one operation of the Client, whether that succeeds or fails.
C27_OneExchangeEach == HandlerRan => Len(last.reqs) = 1

\* C27, amended: each run of Create, Read and Delete calls exactly one
\* operation of the Client (CreatePod, GetPod, TerminatePod), whether
\* that succeeds or fails, and a run of Update calls none.
C27_OneExchangeButUpdate ==
    HandlerRan =>
        IF last.op = "Update" THEN last.reqs = <<>>
        ELSE /\ Len(last.reqs) = 1
             /\ last.reqs[1].op = CASE last.op = "Create" -> "CreatePod"
                                     [] last.op = "Read" -> "GetPod"
                                     [] last.op = "Delete" -> "TerminatePod"

C27_Witness ==
    /\ HandlerRan
    /\ last.op = "Create"
    /\ last.diag # NoDiag
    /\ ~tracked
    /\ Len(last.reqs) = 1

\* The attributes an ImportStateVerify step compares: all but cloud_type,
\* env, support_public_ip, start_ssh, min_vcpu_count, min_memory_in_gb.
VerifiedFields ==
    (DOMAIN NoState) \ { "CloudType", "Env", "SupportPublicIP", "StartSSH",
                          "MinVcpuCount", "MinMemoryInGb" }

\* C28: for a tracked pod whose state a Read of the remote's pod leaves as
\* it is, the import by id followed by a Read of the same pod yields a
\* state that has the value of the tracked state for every attribute that
\* is not ignored.
C28_ImportRoundTrip ==
    ( /\ Succeeded("Read")
      /\ tracked
      /\ before # NoState
      /\ last.prior = [NoState EXCEPT !.ID = before.ID]
      /\ ReadState(before, last.res.pod) = before )
    => \A f \in VerifiedFields : state[f] = before[f]

WriteOnceFields == DOMAIN Carried(NoPod)

\* C29: a configuration that changes a write-once attribute (image_name,
\* gpu_type_id, volume_in_gb, ports, volume_mount_path, docker_args) is
\* applied by replacement: an Update leaves every write-once attribute as
\* it was; a replacement under way has terminated the old pod; and the
\* Create that completes it sends the new values and leaves them in the
\* state.
C29_WriteOnceByReplacement ==
    /\ last.op = "Update" =>
            \A f \in WriteOnceFields : state[f] = last.prior[f]
    /\ replacing # NoConfig =>
            /\ ~tracked
            /\ Succeeded("Delete")
            /\ last.cfg = replacing
            /\ \E f \in WriteOnceFields :
                    PlanOf(replacing)[f] # last.prior[f]
            /\ last.reqs = <<Request("TerminatePod", last.prior.ID.v, NoInput)>>
    /\ (Succeeded("Create") /\ last.replacing # NoConfig) =>
            /\ tracked
            /\ last.cfg = last.replacing
            /\ last.reqs[1].input =
                    CreatePodInputMap(PodInputOf(PlanOf(last.cfg)))
            /\ \A f \in WriteOnceFields : state[f] = PlanOf(last.cfg)[f]

C29_Witness ==
    /\ Succeeded("Create")
    /\ last.replacing = CfgGrown
    /\ tracked
    /\ state.VolumeInGb = Known(30)
    /\ last.reqs[1].input.volumeInGb = Sent(30)

C30_Case ==
    /\ last.op = "Read"
    /\ last.priorTracked
    /\ last.res.err # <<>>
    /\ ~Contains(last.res.err, NotFoundText)

\* C30: a Read whose fetch fails with an error that does not contain
\* "not found" adds an error diagnostic and leaves the resource in the
\* state with every attribute as it was.
C30_ReadErrorKeepsState ==
    C30_Case => /\ last.diag # NoDiag
                /\ tracked
                /\ state = last.prior

C30_Witness ==
    /\ C30_Case
    /\ Answered
    /\ last.out.status = 500
    /\ state.ID = Known("p1")
    /\ tracked

\* The last run was a read of the GPU catalog with a filter id.
FilteredRead ==
    /\ ran.op = "GpuTypesRead"
    /\ ~ran.filter.nil
    /\ ~IsNull(ran.filter.ID)

FilterIDs == { "A4000", "A5000" }

\* C23: the fetch of a catalog entry by id sends the same document for
\* every id, and the id itself as a request variable.
C23_IdOnlyInVariables ==
    FilteredRead =>
        /\ \A id \in FilterIDs : GetGpuTypeRequest(id).query = ran.reqs[1].query
        /\ \E v \in ran.reqs[1].variables.map : v[2] = ran.filter.ID.v

\* C24: a read of the GPU catalog with a filter id that succeeds leaves
\* exactly one entry, whose id is the filter's, whatever non-empty list the
\* remote answered with.
C24_FilteredEntryMatches ==
    (FilteredRead /\ ran.diag = NoDiag) =>
        /\ Len(gpuState.GpuTypes) = 1
        /\ gpuState.GpuTypes[1].ID = ran.filter.ID

HasEq(s) == \E i \in 1..Len(s) : s[i] = "="

C25_Case == decoded.done /\ wire.kind = "strings"

\* C25: decoding a JSON array of strings gives one record per string, in
\* the order of the array: a string with an "=" is key, "=", value with no
\* "=" in the key, and a string without "=" is the key of an empty value.
C25_DecodeSplitsAtFirstEq ==
    C25_Case =>
        /\ ~decoded.err
        /\ Len(decoded.e) = Len(wire.items)
        /\ \A i \in 1..Len(wire.items) :
              LET str == wire.items[i]
                  rec == decoded.e[i]
              IN  IF HasEq(str)
                  THEN /\ str = rec.Key \o <<"=">> \o rec.Value
                       /\ ~HasEq(rec.Key)
                  ELSE /\ rec.Key = str
                       /\ rec.Value = <<>>

C25_Witness ==
    /\ C25_Case
    /\ wire.items = << <<"A", "=", "=">>, <<"A", "A">> >>
    /\ decoded.e = << EnvVar(<<"A">>, <<"=">>), EnvVar(<<"A", "A">>, <<>>) >>

\* A source supplies a credential when it holds a non-empty string.
KeySupplied == ran.key.k = "known" /\ ran.key.v # ""

EnvSupplied == ran.envKey # ""

\* C26: Configure builds the client with the configured api_key when that
\* supplies a credential and with RUNPOD_API_KEY otherwise, and reports
\* "Missing API Key", publishing no client, only when neither does.
C26_CredentialResolved ==
    ran.op = "Configure" =>
        /\ KeySupplied => ran.apiKey = ran.key.v
        /\ (~KeySupplied /\ EnvSupplied) => ran.apiKey = ran.envKey
        /\ ran.diag = MissingAPIKey <=> (~KeySupplied /\ ~EnvSupplied)
        /\ ran.diag = MissingAPIKey => published.nil
        /\ ~published.nil => published.apiKey = ran.apiKey

C31_Case ==
    /\ last.op = "Delete"
    /\ last.res.err # <<>>
    /\ ~Contains(last.res.err, NotFoundText)

\* C31: a Delete whose terminate fails with an error that does not contain
\* "not found" adds an error diagnostic that carries the error's text, and
\* the resource stays in the state with every attribute as it was.
C31_DeleteErrorKeepsState ==
    C31_Case => /\ last.diag # NoDiag
                /\ Contains(last.diag, last.res.err)
                /\ Contains(last.res.err, ErrText(doRequestResult(0, last.out)))
                /\ tracked
                /\ state = last.prior

C31_Witness ==
    /\ C31_Case
    /\ last.out.status = 500
    /\ Contains(last.diag, <<"internal error">>)
    /\ tracked
    /\ state.ID = Known("p1")

\* The exchange of the last run ended without an answer of the service
\* about the pod: the transport failed, or the status was 400 or more
\* (429 and 503 after the retries included).
NoAnswerAboutPod ==
    \/ last.out.doErr
    \/ last.out.readErr
    \/ last.out.status >= 400

\* C32: a Read or a Delete whose exchange fails in the transport, with an
\* HTTP status of 400 or more (whatever the body), or by exhausting the
\* retries, neither drops the resource from the state nor succeeds.
C32_AbsentOnlyWhenRemoteSaysSo ==
    ( /\ last.op \in {"Read", "Delete"}
      /\ last.priorTracked
      /\ NoAnswerAboutPod )
    => /\ tracked
       /\ state = last.prior
       /\ last.diag # NoDiag

\* C35: after a Create that succeeds, id, machine_id and pod_host_id are
\* known in the state, also when the response has no machineId or no
\* machine object.
C35_ServerOwnedKnownAfterCreate ==
    Succeeded("Create") =>
        \A f \in {"ID", "MachineID", "PodHostID"} : state[f].k = "known"

\* The optional arguments and the member of the create input that carries
\* each.
OptionalInputs ==
    { <<"GpuCount", "gpuCount">>, <<"VolumeInGb", "volumeInGb">>,
      <<"ContainerDiskInGb", "containerDiskInGb">>, <<"CloudType", "cloudType">>,
      <<"Ports", "ports">>, <<"VolumeMountPath", "volumeMountPath">>,
      <<"DockerArgs", "dockerArgs">>, <<"Env", "env">>,
      <<"MinVcpuCount", "minVcpuCount">>, <<"MinMemoryInGb", "minMemoryInGb">>,
      <<"NetworkVolumeID", "networkVolumeId">>, <<"TemplateID", "templateId">>,
      <<"DataCenterID", "dataCenterId">>,
      <<"SupportPublicIP", "supportPublicIp">>, <<"StartSSH", "startSsh">> }

\* C36: the create request carries every optional argument that the
\* configuration sets, with the configured value (false and 0 included),
\* so that the state after Create holds what the remote was given.
C36_SetOptionalsSent ==
    (Succeeded("Create") /\ SchemaAccepts(last.cfg)) =>
        \A fm \in OptionalInputs :
            ~IsNull(last.cfg[fm[1]]) =>
                /\ last.reqs[1].input[fm[2]] = Sent(last.cfg[fm[1]].v)
                /\ state[fm[1]] = last.cfg[fm[1]]

\* A Read that fetched a pod and merged it into the state.
Merged(run) == run.op = "Read" /\ run.diag = NoDiag /\ run.res.err = <<>>

\* C33: after an Update to a configuration that differs from the state in
\* name, gpu_count or container_disk_in_gb only, the next Read that fetches
\* the pod, which no request has changed, leaves a state that holds the
\* configuration.
C33_NoDiffAfterUpdate ==
    [][ ( /\ last.op = "Update"
          /\ \A f \in ConfiguredFields \ {"Name", "GpuCount", "ContainerDiskInGb"} :
                PlanOf(last.cfg)[f] = last.prior[f]
          /\ Merged(last')
          /\ ReadState(last.prior, last'.res.pod) = last.prior )
        => \A f \in ConfiguredFields : state'[f] = PlanOf(last.cfg)[f] ]_allVars

\* C34: no Read and no Update changes the env of a resource in the state,
\* so that it stays the env sent when the pod was created.
C34_EnvFixedAfterCreate ==
    [][ (tracked /\ tracked' /\ last'.op \in {"Read", "Update"})
            => state'.Env = state.Env ]_allVars

\* C38: a Read that fetches the pod that the Read before it fetched leaves
\* the state as that Read left it.
C38_ReadIdempotent ==
    [][ ( /\ Merged(last)
          /\ Merged(last')
          /\ last'.res.pod = last.res.pod )
        => state' = state ]_allVars

C38_Witness ==
    /\ Merged(last)
    /\ tracked
    /\ reads = "many"
    /\ last.res.pod = PodDrift
    /\ baseline # state
    /\ ReadState(baseline, PodDrift) = state
    /\ last.prior = state

\* C37: under fair scheduling every call of doRequest by every caller
\* returns, and whenever no call is between Lock and its return the mutex
\* is free.
C37_EveryCallReturns ==
    /\ \A c \in FairCallers : (pc[c] # "idle") ~> (pc[c] = "idle")
    /\ [](InExchange = {} => ~mu)

C37_Witness ==
    /\ returned >= 2
    /\ InExchange = {}
    /\ ~mu
    /\ \E c \in Callers : pc[c] = "lock"

\* The exchange of run succeeded with an empty list of GPU types.
EmptyAnswer(run) ==
    /\ ~run.out.doErr
    /\ ~run.out.readErr
    /\ run.out.status = 200
    /\ run.out.body.valid
    /\ run.out.body.errors = <<>>
    /\ run.out.body.data.kind \in {"list", "null"}
    /\ run.out.body.data.gpuTypes = <<>>

\* C39: a read of the GPU catalog by id whose exchange succeeds with an
\* empty list ends with an error diagnostic that says "GPU type not found"
\* and leaves the data source's state as it was; no read of the catalog
\* changes the state of a pod resource.
C39_EmptyListIsNotFound ==
    [][ (ran' # ran /\ ran'.op = "GpuTypesRead") =>
            /\ podVars' = podVars
            /\ ( /\ ~ran'.filter.nil
                 /\ ~IsNull(ran'.filter.ID)
                 /\ EmptyAnswer(ran') )
               => /\ Contains(ran'.diag,
                              <<"GPU type not found: ", ran'.filter.ID.v>>)
                  /\ gpuState' = gpuState ]_allVars

C39_Witness ==
    /\ FilteredRead
    /\ EmptyAnswer(ran)
    /\ ran.out.body.data.kind = "list"
    /\ ran.diag = <<"Unable to read GPU type: ", "GPU type not found: ", "A5000">>
    /\ gpuState = NoGpuState
    /\ tracked
    /\ state.ID = Known("p1")

====
